---------------------------- MODULE Spec2Model ----------------------------
(***************************************************************************)
(* PostgresToCsvOperator (airflow/contrib/operators/                       *)
(* postgres_to_csv_operator.py): construction, execute, the watermark      *)
(* resolver, the header derivation from the SQL text and the csv writer.   *)
(*                                                                         *)
(* Python strings are sequences of one-character strings, so that lower,   *)
(* strip, replace, split and the csv quoting are computed, not assumed.    *)
(* Python scalars (None, int, str) are records of one shape, PyNone,       *)
(* PyInt(n), PyStr(s).                                                     *)
(***************************************************************************)
EXTENDS Integers, Sequences, FiniteSets, TLC

VARIABLES
    heap,        \* the dict objects of the process: address -> mapping
    operators,   \* the constructed PostgresToCsvOperator instances (self.*)
    configured,  \* history: what each instance was constructed with
    files,       \* the file system: path -> text
    raised,      \* outcome of the last constructor call
    run,         \* trace of the last execute()
    sql_field,   \* argument of _parse_sql_field_to_csv_header
    csv_header   \* its result

vars == <<heap, operators, configured, files, raised, run, sql_field, csv_header>>

----------------------------------------------------------------------------
(* Bounds *)

MaxFieldLen == 6    \* longest select-list expression of SpecField

----------------------------------------------------------------------------
(* Python scalars *)

PyNone == [t |-> "none", i |-> 0, s |-> <<>>]
PyInt(n) == [t |-> "int", i |-> n, s |-> <<>>]
PyStr(x) == [t |-> "str", i |-> 0, s |-> x]

\* bool(x) of a scalar, as `not x` uses it
Truthy(x) ==
    CASE x.t = "none" -> FALSE
      [] x.t = "int"  -> x.i # 0
      [] x.t = "str"  -> x.s # <<>>

----------------------------------------------------------------------------
(* Python str methods *)

Whitespace == {" ", "\t", "\n", "\r"}

LowerChar(c) ==
    CASE c = "A" -> "a"
      [] c = "S" -> "s"
      [] c = "B" -> "b"
      [] c = "C" -> "c"
      [] OTHER   -> c

\* str.lower()
Lower(s) == [i \in 1..Len(s) |-> LowerChar(s[i])]

RECURSIVE LStrip(_)
LStrip(s) ==
    IF s # <<>> /\ Head(s) \in Whitespace THEN LStrip(Tail(s)) ELSE s

RECURSIVE RStrip(_)
RStrip(s) ==
    IF s # <<>> /\ s[Len(s)] \in Whitespace
    THEN RStrip(SubSeq(s, 1, Len(s) - 1))
    ELSE s

\* str.strip()
Strip(s) == RStrip(LStrip(s))

\* str.replace(c, '')
RemoveChar(s, c) == SelectSeq(s, LAMBDA x : x # c)

\* s.startswith(sep, i - 1): sep occurs in s at position i
OccursAt(s, sep, i) ==
    /\ i >= 1
    /\ i + Len(sep) - 1 <= Len(s)
    /\ SubSeq(s, i, i + Len(sep) - 1) = sep

\* sep in s
Contains(s, sep) == \E i \in 1..Len(s) : OccursAt(s, sep, i)

\* s.find(sep) + 1, for a sep that occurs in s
Find(s, sep) == CHOOSE i \in 1..Len(s) :
    /\ OccursAt(s, sep, i)
    /\ \A j \in 1..(i - 1) : ~OccursAt(s, sep, j)

\* s.split(sep): left to right, occurrences do not overlap, empty pieces kept
RECURSIVE Split(_, _)
Split(s, sep) ==
    IF ~Contains(s, sep) THEN <<s>>
    ELSE LET i == Find(s, sep)
         IN  <<SubSeq(s, 1, i - 1)>> \o Split(SubSeq(s, i + Len(sep), Len(s)), sep)

----------------------------------------------------------------------------
(* _parse_sql_field_to_csv_header *)

AsKeyword == <<" ", "a", "s", " ">>

_parse_sql_field_to_csv_header(field) ==
    LET h0 == RemoveChar(Strip(Lower(field)), "\"")
        h1 == IF Contains(h0, AsKeyword)
              THEN Split(h0, AsKeyword)[Len(Split(h0, AsKeyword))] ELSE h0
        h2 == IF Contains(h1, <<".">>) THEN Split(h1, <<".">>)[2] ELSE h1
    IN  IF Contains(h2, <<" ">>) THEN Split(h2, <<" ">>)[2] ELSE h2


----------------------------------------------------------------------------
(* csv.writer / csv.DictWriter with the default (excel) dialect *)

CR == "\r"
LF == "\n"
Comma == ","
Quote == "\""

Digit(n) == <<"0", "1", "2", "3", "4", "5", "6", "7", "8", "9">>[n + 1]

RECURSIVE NatToStr(_)
NatToStr(n) == IF n < 10 THEN <<Digit(n)>> ELSE NatToStr(n \div 10) \o <<Digit(n % 10)>>

\* what the writer makes of a field: None is written as '', the rest as str(x)
FieldText(x) ==
    CASE x.t = "none" -> <<>>
      [] x.t = "int"  -> IF x.i < 0 THEN <<"-">> \o NatToStr(0 - x.i) ELSE NatToStr(x.i)
      [] x.t = "str"  -> x.s

\* QUOTE_MINIMAL: a field holding the delimiter, the quote character or a
\* character of the line terminator is quoted
NeedsQuote(text) == \E i \in 1..Len(text) : text[i] \in {Comma, Quote, CR, LF}

RECURSIVE DoubleQuotes(_)
DoubleQuotes(text) ==
    IF text = <<>> THEN <<>>
    ELSE (IF Head(text) = Quote THEN <<Quote, Quote>> ELSE <<Head(text)>>)
         \o DoubleQuotes(Tail(text))

CsvField(text) ==
    IF NeedsQuote(text) THEN <<Quote>> \o DoubleQuotes(text) \o <<Quote>> ELSE text

RECURSIVE JoinFields(_)
JoinFields(texts) ==
    IF texts = <<>> THEN <<>>
    ELSE IF Len(texts) = 1 THEN CsvField(texts[1])
    ELSE CsvField(texts[1]) \o <<Comma>> \o JoinFields(Tail(texts))

\* writer.writerow on a row of texts; a row of one empty field is written ""
WriteRow(texts) ==
    (IF Len(texts) = 1 /\ texts[1] = <<>> THEN <<Quote, Quote>> ELSE JoinFields(texts))
    \o <<CR, LF>>

RowTexts(row) == [j \in 1..Len(row) |-> FieldText(row[j])]

RECURSIVE WriteRows(_)
WriteRows(results) ==
    IF results = <<>> THEN <<>>
    ELSE WriteRow(RowTexts(Head(results))) \o WriteRows(Tail(results))

\* open(path, 'w'): the text the new handle starts from
OpenForWrite(old) == <<>>

\* the bug open(path, 'a') would be
CreateCsvAppend(old, results, headers) == old \o WriteRow(headers) \o WriteRows(results)

\* the bug of leaving writeheader() out
CreateCsvNoHeader(old, results, headers) == OpenForWrite(old) \o WriteRows(results)

\* _create_csv: the text of the file at csv_file_path afterwards
_create_csv(old, results, headers) ==
    OpenForWrite(old) \o WriteRow(headers) \o WriteRows(results)


----------------------------------------------------------------------------
(* sqlparse.parse(sql)[0].tokens and _get_csv_headers_from_sql *)

\* A statement `select <select> from <from>`; star is `select *`.
Sql(select, star, from) == [select |-> select, star |-> star, from |-> from]

Token(cls, ids) == [cls |-> cls, ids |-> ids]

\* sqlparse groups two or more comma-separated names into one IdentifierList
\* token; a single name stays an Identifier token
GroupIdentifiers(names) ==
    IF Len(names) >= 2 THEN <<Token("IdentifierList", names)>>
    ELSE IF Len(names) = 1 THEN <<Token("Identifier", names)>>
    ELSE <<>>

\* the top-level tokens of the statement (whitespace tokens left out)
sqlparse_tokens(sql) ==
    <<Token("DML", <<>>)>>
    \o (IF sql.star THEN <<Token("Wildcard", <<>>)>> ELSE GroupIdentifiers(sql.select))
    \o <<Token("Keyword", <<>>)>>
    \o GroupIdentifiers(sql.from)

RECURSIVE IdentifierListValues(_)
IdentifierListValues(tokens) ==
    IF tokens = <<>> THEN <<>>
    ELSE (IF Head(tokens).cls = "IdentifierList" THEN Head(tokens).ids ELSE <<>>)
         \o IdentifierListValues(Tail(tokens))

_get_csv_headers_from_sql(sql) ==
    LET parsed_sql_fields == IdentifierListValues(sqlparse_tokens(sql))
    IN  [j \in 1..Len(parsed_sql_fields) |->
            _parse_sql_field_to_csv_header(parsed_sql_fields[j])]

----------------------------------------------------------------------------
(* Inputs *)

MaxOps == 1         \* operator instances alive in the process

\* SELECT id, name AS customer FROM t
SqlIdCustomer == Sql(<<<<"i", "d">>, <<"n", "a", "m", "e", " ", "A", "S", " ", "c", "u", "s", "t", "o", "m", "e", "r">>>>, FALSE, <<<<"t">>>>)
\* select a from t
SqlSingle == Sql(<<<<"a">>>>, FALSE, <<<<"t">>>>)
\* select * from t
SqlStar == Sql(<<>>, TRUE, <<<<"t">>>>)

SqlStatements == {SqlIdCustomer, SqlSingle, SqlStar}

Absent == [t |-> "absent", i |-> 0, s |-> <<>>]

\* the names a parameters dict can hold here
ParamNames == {"k", "last_updated_value"}

\* {}
EmptyDict == [n \in ParamNames |-> Absent]

\* {'k': 1}
DictK == [EmptyDict EXCEPT !["k"] = PyInt(1)]

\* The parameters argument: left out, a dict, None, or a non-empty list
ParametersOmitted == [t |-> "omitted", d |-> EmptyDict]
ParametersDict(d) == [t |-> "dict", d |-> d]
ParametersNone == [t |-> "none", d |-> EmptyDict]
ParametersList == [t |-> "list", d |-> EmptyDict]

NoHeaders == [some |-> FALSE, v |-> <<>>]
SomeHeaders(h) == [some |-> TRUE, v |-> h]

\* The headers argument: None, [] or ['h']
HeadersArgs == {NoHeaders, SomeHeaders(<<>>), SomeHeaders(<< <<"h">> >>)}

\* '1970-01-01 00:00:00+00:00'
DefaultLastUpdatedValue ==
    PyStr(<<"1", "9", "7", "0", "-", "0", "1", "-", "0", "1">> \o <<" ">> \o
          <<"0", "0", ":", "0", "0", ":", "0", "0", "+", "0", "0", ":", "0", "0">>)

CsvPath == "out.csv"

\* The constructor calls of Spec, with the names of an incremental select
\* given: every sql with every way of giving headers, and one sql with
\* every way of giving parameters
CtorArgs ==
    [ sql : SqlStatements,
      parameters : {ParametersOmitted},
      headers : HeadersArgs,
      increment : BOOLEAN,
      destination_table : {"dest"},
      last_modified_fname : {"updated_at"},
      default_last_updated_value : {DefaultLastUpdatedValue},
      csv_file_path : {CsvPath} ]
    \cup
    [ sql : {SqlIdCustomer},
      parameters : {ParametersOmitted, ParametersDict(DictK)},
      headers : {NoHeaders},
      increment : BOOLEAN,
      destination_table : {"dest"},
      last_modified_fname : {"updated_at"},
      default_last_updated_value : {DefaultLastUpdatedValue},
      csv_file_path : {CsvPath} ]

\* The constructor calls of SpecInit: one sql and no headers, with every way
\* of giving the names of an incremental select, and parameters left out,
\* None or not a dict
CtorArgsInit ==
    [ sql : {SqlIdCustomer},
      parameters : {ParametersOmitted, ParametersNone, ParametersList},
      headers : {NoHeaders},
      increment : BOOLEAN,
      destination_table : {"", "dest"},
      last_modified_fname : {"", "updated_at"},
      default_last_updated_value : {DefaultLastUpdatedValue},
      csv_file_path : {CsvPath} ]

\* hook.get_first(sql): None (no row) or a one-field row
NoRow == [some |-> FALSE, v |-> PyNone]
Row(x) == [some |-> TRUE, v |-> x]
WatermarkRows == {NoRow, Row(PyNone), Row(PyInt(0)), Row(PyStr(<<"2", "0", "2", "0">>))}

\* hook.get_records(sql, parameters)
ResultSets == { <<>>, << <<PyInt(1), PyStr(<<"a">>)>> >> }

\* what the file at csv_file_path holds before the first run
OldText == <<"o", "l", "d", CR, LF>>


----------------------------------------------------------------------------
(* State *)

\* the dict object `{}` that is the default of __init__'s `parameters`: made
\* once, when the def statement runs
DefaultParameters == 0

NoRaise == [call |-> FALSE, exc |-> "none", parameters |-> "omitted",
            increment |-> FALSE,
            destination_table |-> "", last_modified_fname |-> ""]

NoParams == [t |-> "none", d |-> EmptyDict]
DictParams(d) == [t |-> "dict", d |-> d]

NoRun ==
    [ status |-> "none", exc |-> "none", op |-> 0, events |-> <<>>,
      before |-> NoParams, row |-> NoRow, last_updated_value |-> PyNone,
      parameters |-> NoParams, headers |-> <<>>, results |-> <<>> ]

Init ==
    /\ heap = (DefaultParameters :> EmptyDict)
    /\ operators = <<>>
    /\ configured = <<>>
    /\ files = (CsvPath :> OldText)
    /\ raised = NoRaise
    /\ run = NoRun
    /\ sql_field = <<>>
    /\ csv_header = [done |-> FALSE, value |-> <<>>]

----------------------------------------------------------------------------
(* __init__ *)

\* the bug of checking last_modified_fname alone
InitRaisesFnameOnly(args) ==
    IF args.parameters.t = "list" THEN "SyntaxError"
    ELSE IF args.increment /\ args.last_modified_fname = "" THEN "SyntaxError"
    ELSE "none"

\* the exception the constructor raises for these arguments, "none" for none
InitRaises(args) ==
    IF args.parameters.t = "list" THEN "SyntaxError"
    ELSE IF args.increment /\ args.last_modified_fname = "" THEN "SyntaxError"
    ELSE IF args.increment /\ args.destination_table = "" THEN "SyntaxError"
    ELSE "none"

\* self.parameters = parameters: a reference to the dict passed, to the one
\* default dict when none is passed, or None
ParametersRef(args, fresh) ==
    CASE args.parameters.t = "omitted" -> [t |-> "dict", a |-> DefaultParameters]
      [] args.parameters.t = "dict"    -> [t |-> "dict", a |-> fresh]
      [] OTHER                         -> [t |-> "none", a |-> DefaultParameters]

Construct(args) ==
    /\ InitRaises(args) # "none" \/ Len(operators) < MaxOps
    /\ run' = NoRun
    /\ raised' = [ call |-> TRUE, exc |-> InitRaises(args),
                   parameters |-> args.parameters.t, increment |-> args.increment,
                   destination_table |-> args.destination_table,
                   last_modified_fname |-> args.last_modified_fname ]
    /\ UNCHANGED <<files, sql_field, csv_header>>
    /\ IF InitRaises(args) # "none"
       THEN UNCHANGED <<heap, operators, configured>>
       ELSE LET fresh == Len(operators) + 1
            IN  /\ operators' = Append(operators,
                       [ sql |-> args.sql,
                         csv_file_path |-> args.csv_file_path,
                         parameters |-> ParametersRef(args, fresh),
                         increment |-> args.increment,
                         headers |-> args.headers,
                         destination_table |-> args.destination_table,
                         last_modified_fname |-> args.last_modified_fname,
                         default_last_updated_value |-> args.default_last_updated_value ])
                /\ configured' = Append(configured,
                       [ parameters |-> IF args.parameters.t = "none"
                                        THEN NoParams ELSE DictParams(args.parameters.d),
                         headers |-> args.headers ])
                /\ heap' = IF args.parameters.t = "dict"
                           THEN (fresh :> args.parameters.d) @@ heap
                           ELSE heap

----------------------------------------------------------------------------
(* execute *)

\* _extract_last_updated_value: row is what hook.get_first returned; None[0]
\* raises TypeError
_extract_last_updated_value(self, row) ==
    IF ~row.some THEN [exc |-> "TypeError", value |-> PyNone]
    ELSE LET last_updated_field == row.v
         IN  IF ~Truthy(last_updated_field)
             THEN [exc |-> "none", value |-> self.default_last_updated_value]
             ELSE [exc |-> "none", value |-> last_updated_field]

\* `not self.headers`: None and [] are both falsy
HeadersFalsy(headers) == ~headers.some \/ headers.v = <<>>

\* the bug of deriving the headers whenever the SQL gives some
ExecuteHeadersAlwaysDerive(self) ==
    IF _get_csv_headers_from_sql(self.sql) # <<>>
    THEN _get_csv_headers_from_sql(self.sql)
    ELSE IF self.headers.some THEN self.headers.v ELSE <<>>

\* self._get_csv_headers_from_sql() for each sql there is, computed once
DerivedHeaders == [sql \in SqlStatements |-> _get_csv_headers_from_sql(sql)]

\* lines 109-110: self.headers after them
ExecuteHeaders(self) ==
    IF HeadersFalsy(self.headers)
    THEN DerivedHeaders[self.sql]
    ELSE self.headers.v

\* the bug of injecting the watermark whatever self.increment is
ExecuteIncrementAlways(self) == TRUE

\* line 100
ExecuteIncrement(self) == self.increment

Execute(i, row, results) ==
    LET self == operators[i]
        inc == ExecuteIncrement(self)
        found == _extract_last_updated_value(self, row)
        \* self.parameters.update(...) on None raises AttributeError
        exc == IF inc /\ found.exc # "none" THEN found.exc
               ELSE IF inc /\ self.parameters.t = "none" THEN "AttributeError"
               ELSE "none"
        a == self.parameters.a
        \* history: what self.parameters holds when execute is entered
        before == IF self.parameters.t = "none" THEN NoParams ELSE DictParams(heap[a])
        heap1 == IF inc /\ exc = "none"
                 THEN [heap EXCEPT ![a]["last_updated_value"] = found.value]
                 ELSE heap
        parameters == IF self.parameters.t = "none" THEN NoParams
                      ELSE DictParams(heap1[a])
        headers == ExecuteHeaders(self)
    IN  /\ heap' = heap1
        /\ raised' = NoRaise
        /\ UNCHANGED <<configured, sql_field, csv_header>>
        /\ IF exc # "none"
           THEN /\ run' = [ status |-> "failed", exc |-> exc, op |-> i,
                            events |-> <<"get_first">>,
                            before |-> before, row |-> row, last_updated_value |-> found.value,
                            parameters |-> NoParams, headers |-> <<>>,
                            results |-> <<>> ]
                /\ UNCHANGED <<operators, files>>
           ELSE /\ run' = [ status |-> "done", exc |-> "none", op |-> i,
                            events |-> (IF inc THEN <<"get_first", "update">> ELSE <<>>)
                                       \o <<"get_records">>
                                       \o (IF HeadersFalsy(self.headers)
                                           THEN <<"parse">> ELSE <<>>)
                                       \o <<"open">>,
                            before |-> before,
                            row |-> IF inc THEN row ELSE NoRow,
                            last_updated_value |-> IF inc THEN found.value ELSE PyNone,
                            parameters |-> parameters,
                            headers |-> headers,
                            results |-> results ]
                /\ operators' = [operators EXCEPT ![i].headers = SomeHeaders(headers)]
                /\ files' = [files EXCEPT ![self.csv_file_path] =
                                _create_csv(@, results, headers)]

\* the last instance constructed is dropped (del, or its name rebound): its
\* own dict goes with it, the default dict of __init__ stays
Discard ==
    /\ operators # <<>>
    /\ operators' = SubSeq(operators, 1, Len(operators) - 1)
    /\ configured' = SubSeq(configured, 1, Len(configured) - 1)
    /\ heap' = [a \in DOMAIN heap \ (IF operators[Len(operators)].parameters.a
                                          = DefaultParameters
                                      THEN {} ELSE {Len(operators)}) |-> heap[a]]
    /\ run' = NoRun
    /\ raised' = NoRaise
    /\ UNCHANGED <<files, sql_field, csv_header>>

\* one execute of instance i; the response of the destination database
\* matters to an incremental run alone
ExecuteSome ==
    \E i \in 1..Len(operators), row \in WatermarkRows, results \in ResultSets :
        /\ (~operators[i].increment => row = NoRow)
        /\ Execute(i, row, results)

Next ==
    \/ \E args \in CtorArgs : Construct(args)
    \/ Discard
    \/ ExecuteSome

NextInit ==
    \/ \E args \in CtorArgsInit : Construct(args)
    \/ Discard
    \/ ExecuteSome

Spec == Init /\ [][Next]_vars

SpecInit == Init /\ [][NextInit]_vars


----------------------------------------------------------------------------
(* The two pure functions on their own *)

FieldAlphabet == {"a", "s", "A", " ", ".", Quote}

RECURSIVE Strings(_, _)
Strings(alphabet, n) ==
    IF n = 0 THEN {<<>>}
    ELSE LET shorter == Strings(alphabet, n - 1)
         IN  shorter \cup {Append(x, c) : x \in shorter, c \in alphabet}

\* SpecField: _parse_sql_field_to_csv_header on every expression of up to
\* MaxFieldLen characters of FieldAlphabet
InitField ==
    /\ heap = (DefaultParameters :> EmptyDict)
    /\ operators = <<>>
    /\ configured = <<>>
    /\ files = (CsvPath :> OldText)
    /\ raised = NoRaise
    /\ run = NoRun
    /\ sql_field \in Strings(FieldAlphabet, MaxFieldLen)
    /\ csv_header = [done |-> FALSE, value |-> <<>>]

ParseField ==
    /\ ~csv_header.done
    /\ csv_header' = [done |-> TRUE, value |-> _parse_sql_field_to_csv_header(sql_field)]
    /\ UNCHANGED <<heap, operators, configured, files, raised, run, sql_field>>

NextField == ParseField

SpecField == InitField /\ [][NextField]_vars

MaxRows == 2        \* longest result set of SpecCsv

CsvScalars ==
    { PyNone, PyInt(10), PyStr(<<>>), PyStr(<<"a">>), PyStr(<<Quote, Comma, LF>>) }

\* records of no, one and two fields
CsvRecords ==
    {<<>>} \cup {<<x>> : x \in CsvScalars} \cup {<<x, y>> : x, y \in CsvScalars}

RECURSIVE CsvResults(_)
CsvResults(n) ==
    IF n = 0 THEN {<<>>}
    ELSE LET shorter == CsvResults(n - 1)
         IN  shorter \cup {Append(rs, r) : rs \in shorter, r \in CsvRecords}

CsvHeaders == { <<>>, << <<"h">> >>, << <<"h">>, <<"q", Comma, Quote>> >> }

\* SpecCsv: _create_csv on every result set of up to MaxRows records, over a
\* file that is empty or holds an earlier text
InitCsv ==
    /\ heap = (DefaultParameters :> EmptyDict)
    /\ operators = <<>>
    /\ configured = <<>>
    /\ files \in [{CsvPath} -> {<<>>, OldText}]
    /\ raised = NoRaise
    /\ \E headers \in CsvHeaders, results \in CsvResults(MaxRows) :
           run = [NoRun EXCEPT !.status = "pending", !.headers = headers,
                               !.results = results]
    /\ sql_field = <<>>
    /\ csv_header = [done |-> FALSE, value |-> <<>>]

CreateCsv ==
    /\ run.status = "pending"
    /\ files' = [files EXCEPT ![CsvPath] = _create_csv(@, run.results, run.headers)]
    /\ run' = [run EXCEPT !.status = "done", !.events = <<"open">>]
    /\ UNCHANGED <<heap, operators, configured, raised, sql_field, csv_header>>

NextCsv == CreateCsv

SpecCsv == InitCsv /\ [][NextCsv]_vars

----------------------------------------------------------------------------
(* csv.reader with the default dialect, over a file opened with newline='' *)

CsvStart == [state |-> "START_RECORD", field |-> <<>>, row |-> <<>>]

SaveField(st) == [st EXCEPT !.row = Append(st.row, st.field), !.field = <<>>]
AddChar(st, c) == [st EXCEPT !.field = Append(st.field, c)]
Goto(st, state) == [st EXCEPT !.state = state]

\* one character, or "EOL" at the end of a line
CsvStep(st, c) ==
    LET state == IF st.state = "START_RECORD" /\ c \notin {"EOL", CR, LF}
                 THEN "START_FIELD" ELSE st.state
        after == IF c = "EOL" THEN "START_RECORD" ELSE "EAT_CRNL"
    IN  CASE state = "START_RECORD" ->
                 IF c = "EOL" THEN st ELSE Goto(st, "EAT_CRNL")
          [] state = "START_FIELD" ->
                 IF c \in {"EOL", CR, LF} THEN Goto(SaveField(st), after)
                 ELSE IF c = Quote THEN Goto(st, "IN_QUOTED_FIELD")
                 ELSE IF c = Comma THEN Goto(SaveField(st), "START_FIELD")
                 ELSE Goto(AddChar(st, c), "IN_FIELD")
          [] state = "IN_FIELD" ->
                 IF c \in {"EOL", CR, LF} THEN Goto(SaveField(st), after)
                 ELSE IF c = Comma THEN Goto(SaveField(st), "START_FIELD")
                 ELSE AddChar(st, c)
          [] state = "IN_QUOTED_FIELD" ->
                 IF c = "EOL" THEN st
                 ELSE IF c = Quote THEN Goto(st, "QUOTE_IN_QUOTED_FIELD")
                 ELSE AddChar(st, c)
          [] state = "QUOTE_IN_QUOTED_FIELD" ->
                 IF c = Quote THEN Goto(AddChar(st, c), "IN_QUOTED_FIELD")
                 ELSE IF c = Comma THEN Goto(SaveField(st), "START_FIELD")
                 ELSE IF c \in {"EOL", CR, LF} THEN Goto(SaveField(st), after)
                 ELSE Goto(AddChar(st, c), "IN_FIELD")
          [] state = "EAT_CRNL" ->
                 IF c \in {CR, LF} THEN st
                 ELSE IF c = "EOL" THEN Goto(st, "START_RECORD")
                 ELSE Goto(st, "ERROR")
          [] OTHER -> st

RECURSIVE CsvRead(_, _, _, _)
CsvRead(text, i, st, rows) ==
    IF i > Len(text)
    THEN IF st.state # "START_RECORD" THEN Append(rows, SaveField(st).row) ELSE rows
    ELSE LET c == text[i]
             end_of_line == \/ c = LF
                            \/ c = CR /\ ~(i < Len(text) /\ text[i + 1] = LF)
                            \/ i = Len(text)
             st1 == CsvStep(st, c)
             st2 == IF end_of_line THEN CsvStep(st1, "EOL") ELSE st1
         IN  IF end_of_line /\ st2.state = "START_RECORD"
             THEN CsvRead(text, i + 1, CsvStart, Append(rows, st2.row))
             ELSE CsvRead(text, i + 1, st2, rows)

\* list(csv.reader(open(path, newline=''))): the rows of the file
ReadCsv(text) == CsvRead(text, 1, CsvStart, <<>>)


----------------------------------------------------------------------------
(* Properties of a run *)

\* the last call was an execute of a live instance
Ran == run.status # "none" /\ run.op \in 1..Len(operators)

Has(event) == \E k \in 1..Len(run.events) : run.events[k] = event

Before(first, second) ==
    \E k, l \in 1..Len(run.events) :
        k < l /\ run.events[k] = first /\ run.events[l] = second

\* the bind parameters a run is to pass by its instance's construction alone
OwnParameters ==
    LET given == configured[run.op].parameters
    IN  IF operators[run.op].increment
        THEN DictParams([given.d EXCEPT !["last_updated_value"] = run.last_updated_value])
        ELSE given

\* C1: an incremental run's watermark resolver does not fail, and returns the
\* configured default exactly when the query gave no row or a falsy value,
\* the queried value otherwise.
C1_ResolverDefaultOrQueried ==
    (Ran /\ Has("get_first")) =>
        /\ run.exc # "TypeError"
        /\ run.last_updated_value =
               IF ~run.row.some \/ ~Truthy(run.row.v)
               THEN operators[run.op].default_last_updated_value
               ELSE run.row.v

C4_RunDependsOnOwnConstruction ==
    (Ran /\ run.status = "done") =>
        /\ run.parameters = OwnParameters
        /\ run.headers = IF HeadersFalsy(configured[run.op].headers)
                         THEN _get_csv_headers_from_sql(operators[run.op].sql)
                         ELSE configured[run.op].headers.v

\* C5: headers derived from a select-list of one or more fields have one entry
\* per field, in select-list order.
C5_OneHeaderPerSelectField ==
    LET sql == operators[run.op].sql
    IN  (Ran /\ run.status = "done" /\ Has("parse") /\ ~sql.star /\ Len(sql.select) >= 1) =>
            /\ Len(run.headers) = Len(sql.select)
            /\ \A j \in 1..Len(sql.select) :
                   run.headers[j] = _parse_sql_field_to_csv_header(sql.select[j])

\* C6: a run whose header derivation gives no header does not end done.
C6_NoDoneWithoutHeaders ==
    (Ran /\ Has("parse") /\ run.headers = <<>>) => run.status # "done"

\* C8 as stated: supplied headers are written as they are and the parser is
\* not invoked; headers not supplied are the parser's derivation from the sql.
C8_SuppliedOrDerived ==
    (Ran /\ run.status = "done") =>
        IF configured[run.op].headers.some
        THEN run.headers = configured[run.op].headers.v /\ ~Has("parse")
        ELSE run.headers = _get_csv_headers_from_sql(operators[run.op].sql)

\* C8 amended: supplied headers that are not empty are written as they are and
\* the parser is not invoked; with no headers or an empty list supplied the
\* header row is the parser's derivation from the sql of the run. Either way
\* the header row is the first row of the file.
C8_SuppliedNonEmptyOrDerived ==
    (Ran /\ run.status = "done") =>
        /\ IF configured[run.op].headers.some /\ configured[run.op].headers.v # <<>>
           THEN run.headers = configured[run.op].headers.v /\ ~Has("parse")
           ELSE run.headers = _get_csv_headers_from_sql(operators[run.op].sql)
        /\ Head(ReadCsv(files[operators[run.op].csv_file_path])) = run.headers

C8_Witness ==
    /\ Ran /\ run.status = "done"
    /\ configured[run.op].headers = SomeHeaders(<< <<"h">> >>)
    /\ operators[run.op].sql = SqlIdCustomer
    /\ run.headers = << <<"h">> >>
    /\ ~Has("parse")

\* C9: a main query of no rows raises nothing (a run fails before its main
\* query or not at all) and leaves a file of the header row alone.
C9_EmptyResultHeaderOnly ==
    Ran =>
        /\ run.status = "failed" => ~Has("get_records")
        /\ (Has("get_records") /\ run.results = <<>>) =>
               /\ run.status = "done"
               /\ Has("open")
               /\ ReadCsv(files[operators[run.op].csv_file_path]) = <<run.headers>>

C9_Witness ==
    /\ Ran /\ run.status = "done" /\ run.results = <<>>
    /\ ReadCsv(files[CsvPath]) = << << <<"i", "d">>, <<"c", "u", "s", "t", "o", "m", "e", "r">> >> >>

\* C3: no instance exists with increment set and last_modified_fname or
\* destination_table empty, since constructing one raises; runs are runs of
\* instances that exist; without increment the names may be empty.
C3_IncrementNeedsNames ==
    /\ \A i \in 1..Len(operators) :
           operators[i].increment =>
               operators[i].last_modified_fname # "" /\ operators[i].destination_table # ""
    /\ run.status # "none" => run.op \in 1..Len(operators)
    /\ (raised.call /\ raised.increment
            /\ (raised.last_modified_fname = "" \/ raised.destination_table = "")) =>
           raised.exc = "SyntaxError"
    /\ (raised.call /\ ~raised.increment /\ raised.parameters # "list") =>
           raised.exc = "none"

C3_Witness ==
    /\ raised.call /\ raised.exc = "SyntaxError" /\ raised.parameters = "omitted"
    /\ raised.increment /\ raised.last_modified_fname # "" /\ raised.destination_table = ""
    /\ \E i \in 1..Len(operators) :
           ~operators[i].increment /\ operators[i].destination_table = ""

----------------------------------------------------------------------------
(* The field normalisation as the specification words it *)

AsAt(s, i) ==
    /\ i >= 1 /\ i + 3 <= Len(s)
    /\ s[i] \in Whitespace /\ s[i + 1] = "a" /\ s[i + 2] = "s" /\ s[i + 3] \in Whitespace

\* str.split(): the runs of characters that are not whitespace
RECURSIVE Tokens(_, _)
Tokens(s, word) ==
    IF s = <<>> THEN (IF word = <<>> THEN <<>> ELSE <<word>>)
    ELSE IF Head(s) \in Whitespace
         THEN (IF word = <<>> THEN <<>> ELSE <<word>>) \o Tokens(Tail(s), <<>>)
         ELSE Tokens(Tail(s), Append(word, Head(s)))

AfterDot(field) ==
    LET c0 == RemoveChar(Strip(Lower(field)), Quote)
        c1 == IF \E i \in 1..Len(c0) : AsAt(c0, i)
              THEN LET last == CHOOSE i \in 1..Len(c0) :
                                   AsAt(c0, i) /\ \A j \in (i + 1)..Len(c0) : ~AsAt(c0, j)
                   IN  SubSeq(c0, last + 4, Len(c0))
              ELSE c0
    IN  IF Contains(c1, <<".">>) THEN Split(c1, <<".">>)[2] ELSE c1

\* the words give a header when token 1 exists wherever they ask for it
WordedDefined(field) ==
    (\E k \in 1..Len(AfterDot(field)) : AfterDot(field)[k] \in Whitespace) =>
        Len(Tokens(AfterDot(field), <<>>)) >= 2

WordedHeader(field) ==
    IF \E k \in 1..Len(AfterDot(field)) : AfterDot(field)[k] \in Whitespace
    THEN Tokens(AfterDot(field), <<>>)[2]
    ELSE AfterDot(field)

\* C7: the header of every field expression is what the steps give: lowercase,
\* trim, strip quotes; the text after the last whitespace-surrounded "as"; the
\* segment after the first '.'; token 1 of the whitespace-split tokens.
C7_HeaderAsWorded ==
    (csv_header.done /\ WordedDefined(sql_field)) =>
        csv_header.value = WordedHeader(sql_field)

----------------------------------------------------------------------------
(* The round trip of the writer *)

\* a row read back equals a record: field for field the same str
RecordEquals(row, record) ==
    /\ Len(row) = Len(record)
    /\ \A j \in 1..Len(record) : record[j].t = "str" /\ record[j].s = row[j]

\* C10 as stated: the file reads back as the header row and then the records
\* written, in order, and nothing else.
C10_ReadBackEqualsRecords ==
    run.status = "done" =>
        LET rows == ReadCsv(files[CsvPath])
        IN  /\ Len(rows) = 1 + Len(run.results)
            /\ rows[1] = run.headers
            /\ \A k \in 1..Len(run.results) : RecordEquals(rows[k + 1], run.results[k])

\* C10 amended: the file reads back as the header row and then, in order, the
\* records written with every value as the text the writer gave it (str(x),
\* and '' for None), and nothing else.
C10_ReadBackEqualsTexts ==
    run.status = "done" =>
        LET rows == ReadCsv(files[CsvPath])
        IN  /\ Len(rows) = 1 + Len(run.results)
            /\ rows[1] = run.headers
            /\ \A k \in 1..Len(run.results) : rows[k + 1] = RowTexts(run.results[k])

C10_Witness ==
    /\ run.status = "done"
    /\ run.headers = << <<"h">>, <<"q", Comma, Quote>> >>
    /\ run.results = << <<PyStr(<<Quote, Comma, LF>>), PyNone>>, <<PyInt(10)>> >>
    /\ ReadCsv(files[CsvPath]) =
           << << <<"h">>, <<"q", Comma, Quote>> >>,
              << <<Quote, Comma, LF>>, <<>> >>,
              << <<"1", "0">> >> >>

============================================================================
